---- MODULE Spec2Model ----
(***************************************************************************)
(* A model of the PrizePicks EV optimizer: the core math and search of     *)
(* optimizer_core.py and the cooldown fetch of app.py.                     *)
(*                                                                         *)
(* Arithmetic is exact.  A probability is a numerator over PDen; a payout  *)
(* multiplier is held times 10 (37.5 -> 375, 0.4 -> 4); an expected value  *)
(* of n legs is held as its numerator over 10 * PDen^n, so two expected    *)
(* values of the same leg count compare as their numerators do.            *)
(***************************************************************************)
EXTENDS Integers, Sequences, FiniteSets, TLC

VARIABLES
    table,          \* best_lineups: the rows of the input DataFrame df
    has_game,       \* best_lineups: "game" in df.columns
    lu_pc,          \* best_lineups: "ready" before the call, "done" after
    top_k,          \* best_lineups: argument of the last call
    allow_same_game,\* best_lineups: argument of the last call
    df2,            \* best_lineups: the pool (second returned value)
    results,        \* best_lineups: the returned dict
    fx_ps,          \* ev_flex: the argument ps (numerators over PDen)
    fx_dp,          \* ev_flex: dp
    fx_j,           \* ev_flex: legs of ps processed so far
    fx_pc,          \* ev_flex: "loop" inside `for p in ps`, "done" once returned
    fx_ev,          \* ev_flex: the returned value (0 until it returns)
    od_table,       \* compute_probabilities: the rows of df (the two prices)
    od_pc,          \* compute_probabilities: "ready", then "done" or "raised"
    od_out,         \* compute_probabilities: the rows of the returned table
    imp_pc,         \* amer_to_imp_prob: "idle", then "returned"
    imp_arg,        \* amer_to_imp_prob: the argument of the last call
    imp_ret,        \* amer_to_imp_prob: the value the last call returned
    clock,          \* time.time()
    session_state,  \* st.session_state: last_fetch_ts and last_data
    cache,          \* st.cache_data of fetch_prizepicks: url -> cached value
    last_attempt,   \* when requests.get was last called, -1 before any call
    sf_call         \* the last call of safe_fetch: what it saw and what it did

lu_vars == <<table, has_game, lu_pc, top_k, allow_same_game, df2, results>>
fx_vars == <<fx_ps, fx_dp, fx_j, fx_pc, fx_ev>>
od_vars == <<od_table, od_pc, od_out, imp_pc, imp_arg, imp_ret>>
sf_vars == <<clock, session_state, cache, last_attempt, sf_call>>
vars == <<lu_vars, fx_vars, od_vars, sf_vars>>

------------------------------------------------------------------------------
(* Bounds of the model *)

\* longest input table of best_lineups
MaxRows == 4
\* probabilities are k / PDen
PDen == 4
\* longest probability vector handed to ev_flex on its own
MaxLegs == 4

\* longest input table of compute_probabilities
MaxOddsRows == 2
\* how far the clock runs, in steps of TickSec
MaxTicks == 4

\* numerators of the p_over values a row of the table may carry
PNums == {2, 3}
\* a missing (NaN) value of a column
Missing == "<NA>"
\* the values of a cell of the "game" column: a game, or nothing
Games == {"A", Missing}

\* Python's None where a tuple of indices may stand: the empty tuple, which no
\* combination of two or more indices equals
None == <<>>

------------------------------------------------------------------------------
(* Helpers *)

RECURSIVE Pow(_, _)
Pow(b, e) == IF e = 0 THEN 1 ELSE b * Pow(b, e - 1)

Range(s) == {s[i] : i \in DOMAIN s}

RECURSIVE SeqsUpTo(_, _)
\* all sequences over S of length at most n
SeqsUpTo(S, n) ==
    IF n = 0 THEN {<<>>}
    ELSE LET shorter == SeqsUpTo(S, n - 1)
         IN  shorter \cup {Append(s, x) : s \in {t \in shorter : Len(t) = n - 1}, x \in S}

------------------------------------------------------------------------------
(* Core math *)

\* POWER_MULT, times 10
POWER_MULT == (2 :> 30) @@ (3 :> 60) @@ (4 :> 100) @@ (5 :> 200) @@ (6 :> 375)

\* FLEX_TABLE, multipliers times 10; each key of the source is a 1-tuple of hits
FLEX_TABLE ==
    (3 :> {[outcomes |-> <<3>>, mult |-> 30], [outcomes |-> <<2>>, mult |-> 10]}) @@
    (4 :> {[outcomes |-> <<4>>, mult |-> 60], [outcomes |-> <<3>>, mult |-> 15]}) @@
    (5 :> {[outcomes |-> <<5>>, mult |-> 100], [outcomes |-> <<4>>, mult |-> 20],
           [outcomes |-> <<3>>, mult |-> 4]}) @@
    (6 :> {[outcomes |-> <<6>>, mult |-> 250], [outcomes |-> <<5>>, mult |-> 20],
           [outcomes |-> <<4>>, mult |-> 4]})

RECURSIVE Product(_)
Product(ps) == IF ps = <<>> THEN 1 ELSE Head(ps) * Product(Tail(ps))

\* ev_power(ps, n), numerator over 10 * PDen^Len(ps)
ev_power(ps, n) == POWER_MULT[n] * Product(ps) - 10 * Pow(PDen, Len(ps))

\* the loop `for k in range(nlegs + 1)` with a guard off by one: the move to
\* k + 1 is taken only when k + 1 < nlegs
flex_leg_lost_top(dp, p, nlegs) ==
    [i \in 1..(nlegs + 1) |->
        LET k == i - 1
            stay == IF dp[i] = 0 THEN 0 ELSE dp[i] * (PDen - p)
            move == IF k >= 1 /\ dp[i - 1] # 0 /\ k < nlegs
                    THEN dp[i - 1] * p ELSE 0
        IN  stay + move]

\* one pass of `for p in ps` in ev_flex: nxt from dp.  dp[i] is the mass at
\* k = i - 1 hits; the masses after j legs are numerators over PDen^j.
flex_leg(dp, p, nlegs) ==
    [i \in 1..(nlegs + 1) |->
        LET k == i - 1
            \* nxt[k] += dp[k] * (1 - p), skipped when dp[k] == 0
            stay == IF dp[i] = 0 THEN 0 ELSE dp[i] * (PDen - p)
            \* nxt[k'+1] += dp[k'] * p for k' = k - 1, when k' + 1 <= nlegs
            move == IF k >= 1 /\ dp[i - 1] # 0 /\ (k - 1) + 1 <= nlegs
                    THEN dp[i - 1] * p ELSE 0
        IN  stay + move]

\* dp = [0.0] * (nlegs + 1); dp[0] = 1.0
flex_dp0(nlegs) == [i \in 1..(nlegs + 1) |-> IF i = 1 THEN 1 ELSE 0]

RECURSIVE flex_dp(_, _, _)
\* dp after the first j legs of ps
flex_dp(ps, j, nlegs) ==
    IF j = 0 THEN flex_dp0(nlegs)
    ELSE flex_leg(flex_dp(ps, j - 1, nlegs), ps[j], nlegs)

RECURSIVE SumOver(_, _)
SumOver(f, S) ==
    IF S = {} THEN 0
    ELSE LET x == CHOOSE y \in S : TRUE IN f[x] + SumOver(f, S \ {x})

\* the payout loop of ev_flex over table.items(), numerator over 10 * PDen^nlegs
flex_payout(dp, n) ==
    LET tbl  == FLEX_TABLE[n]
        term == [e \in tbl |-> SumOver([k \in Range(e.outcomes) |-> dp[k + 1]],
                                       Range(e.outcomes)) * e.mult]
    IN  SumOver(term, tbl)

\* ev_flex(ps, n), numerator over 10 * PDen^Len(ps)
ev_flex(ps, n) ==
    LET nlegs == Len(ps)
    IN  flex_payout(flex_dp(ps, nlegs, nlegs), n) - 10 * Pow(PDen, nlegs)

\* no call of ev_flex on its own is in progress
FlexIdle ==
    fx_ps = <<>> /\ fx_dp = flex_dp0(0) /\ fx_j = 0 /\ fx_pc = "idle" /\ fx_ev = 0

\* ev_flex, one leg: the body of `for p in ps`
ev_flex_leg ==
    /\ fx_pc = "loop"
    /\ fx_j < Len(fx_ps)
    /\ fx_dp' = flex_leg(fx_dp, fx_ps[fx_j + 1], Len(fx_ps))
    /\ fx_j' = fx_j + 1
    /\ UNCHANGED <<fx_ps, fx_pc, fx_ev, lu_vars, od_vars, sf_vars>>

\* ev_flex, after the loop: the payout sum and the return; n = len(ps), as
\* best_lineups calls it
ev_flex_return ==
    /\ fx_pc = "loop"
    /\ fx_j = Len(fx_ps)
    /\ Len(fx_ps) \in DOMAIN FLEX_TABLE
    /\ fx_ev' = flex_payout(fx_dp, Len(fx_ps)) - 10 * Pow(PDen, Len(fx_ps))
    /\ fx_pc' = "done"
    /\ UNCHANGED <<fx_ps, fx_dp, fx_j, lu_vars, od_vars, sf_vars>>

------------------------------------------------------------------------------
(* Odds conversion and de-vig.  A probability is a pair <<num, den>>, den > 0. *)

\* amer_to_imp_prob(odds)
amer_to_imp_prob(odds) ==
    IF odds > 0 THEN <<100, odds + 100>>
    ELSE <<-odds, (-odds) + 100>>

\* devig_two_way(imp_over, imp_under): s = imp_over + imp_under has the sign of
\* its numerator; imp_over / s = (a/b) / ((a*d + c*b) / (b*d)) = a*d / (a*d + c*b)
devig_two_way(imp_over, imp_under) ==
    LET a == imp_over[1]
        b == imp_over[2]
        c == imp_under[1]
        d == imp_under[2]
        s == a * d + c * b
    IN  IF s <= 0 THEN << <<1, 2>>, <<1, 2>> >>
        ELSE << <<a * d, s>>, <<c * b, s>> >>

\* the prices quoted in a table: valid American odds and odds in (-100, 100)
OddsVals == {-150, 0, 50, 130}
\* a cell of over_odds / under_odds: <<v>> holds v, <<>> is a missing value
NoPrice == <<>>
OddsCells == {<<v>> : v \in OddsVals} \cup {NoPrice}
\* the arguments amer_to_imp_prob is called with on its own
OddsArgs == {-150, -101, -100, -99, -1, 0, 1, 99, 100, 101, 130}

OddsRows == [over_odds : OddsCells, under_odds : OddsCells]

\* int(x) raises on a missing value (NaN / None), and is x otherwise
int_raises(x) == x = NoPrice
int(x) == x[1]

RECURSIVE p_over_column(_, _)
\* the list p_over after the first i rows of df.iterrows()
p_over_column(df, i) ==
    IF i = 0 THEN <<>>
    ELSE LET r  == df[i]
             io == amer_to_imp_prob(int(r.over_odds))
             iu == amer_to_imp_prob(int(r.under_odds))
         IN  Append(p_over_column(df, i - 1), devig_two_way(io, iu)[1])

OddsIdle ==
    /\ od_table = <<>> /\ od_pc = "idle" /\ od_out = <<>>
    /\ imp_pc = "idle" /\ imp_arg = 0 /\ imp_ret = <<0, 1>>

\* compute_probabilities(df).  The returned table holds every row of df, each
\* with its p_over; a row is [row |-> its position in df, p_over |-> ...].
\* The edge_vs_BE_power columns are p_over less a constant and are left out.
compute_probabilities ==
    /\ od_pc = "ready"
    /\ IF \E i \in DOMAIN od_table :
              int_raises(od_table[i].over_odds) \/ int_raises(od_table[i].under_odds)
       THEN \* int(...) raises out of the loop: nothing is returned
            /\ od_pc' = "raised"
            /\ od_out' = <<>>
       ELSE /\ od_pc' = "done"
            /\ od_out' = LET col == p_over_column(od_table, Len(od_table))
                          IN  [i \in DOMAIN od_table |-> [row |-> i, p_over |-> col[i]]]
    /\ UNCHANGED <<od_table, imp_pc, imp_arg, imp_ret, lu_vars, fx_vars, sf_vars>>

\* a call amer_to_imp_prob(odds): it has no raise statement, so it returns
call_amer_to_imp_prob(odds) ==
    /\ imp_pc' = "returned"
    /\ imp_arg' = odds
    /\ imp_ret' = amer_to_imp_prob(odds)
    /\ UNCHANGED <<od_table, od_pc, od_out, lu_vars, fx_vars, sf_vars>>

------------------------------------------------------------------------------
(* safe_fetch *)

\* min_gap_sec: int = 120
min_gap_sec == 120
\* the clock moves in steps of half a cooldown
TickSec == min_gap_sec \div 2
\* time.time() when the session starts: long after the epoch
ClockStart == 10 * min_gap_sec

NoData == "None"
Raised == "<raised>"
NotCached == "<miss>"
URLs == {"u1", "u2"}
Tables == {"T1", "T2"}
\* what the upstream answers when asked: a table, or an error status
Replies == [status : {200}, body : Tables] \cup [status : {429, 403, 500}, body : {NoData}]

\* fetch_prizepicks past the cache: "ok" with the parsed body,
\* "RuntimeError" (429 RATE_LIMIT, 403 FORBIDDEN) or, from raise_for_status,
\* "HTTPError", which is no RuntimeError
fetch_prizepicks(reply) ==
    IF reply.status = 429 THEN [kind |-> "RuntimeError", data |-> NoData]
    ELSE IF reply.status = 403 THEN [kind |-> "RuntimeError", data |-> NoData]
    ELSE IF reply.status >= 400 THEN [kind |-> "HTTPError", data |-> NoData]
    ELSE [kind |-> "ok", data |-> reply.body]

NoCall ==
    [outcome |-> "none", url |-> "u1", now |-> 0, ret |-> NoData,
     ts_before |-> 0, data_before |-> NoData, attempt_before |-> -1]

\* the record of a call made now
Call(outcome, url, ret) ==
    [outcome |-> outcome, url |-> url, now |-> clock, ret |-> ret,
     ts_before |-> session_state.last_fetch_ts,
     data_before |-> session_state.last_data,
     attempt_before |-> last_attempt]

\* safe_fetch(url), the upstream answering `reply` if it is asked.  An absent
\* key of st.session_state reads as last_fetch_ts = 0 / last_data = None.
safe_fetch(url, reply) ==
    LET now == clock
    IN  IF now - session_state.last_fetch_ts < min_gap_sec
        THEN \* inside the cooldown: return last_data
             /\ sf_call' = Call("skipped", url, session_state.last_data)
             /\ UNCHANGED <<session_state, cache, last_attempt>>
        ELSE IF cache[url] # NotCached
        THEN \* st.cache_data answers: no request is made
             /\ session_state' = [last_fetch_ts |-> now, last_data |-> cache[url]]
             /\ sf_call' = Call("cached", url, cache[url])
             /\ UNCHANGED <<cache, last_attempt>>
        ELSE LET got == fetch_prizepicks(reply)
             IN  /\ last_attempt' = now
                 /\ IF got.kind = "ok"
                    THEN /\ cache' = [cache EXCEPT ![url] = got.data]
                         /\ session_state' = [last_fetch_ts |-> now, last_data |-> got.data]
                         /\ sf_call' = Call("fetched", url, got.data)
                    ELSE IF got.kind = "RuntimeError"
                    THEN \* except RuntimeError
                         /\ session_state' = [session_state EXCEPT !.last_fetch_ts = now]
                         /\ sf_call' = Call("runtime_error", url, session_state.last_data)
                         /\ UNCHANGED cache
                    ELSE \* any other exception leaves safe_fetch
                         /\ sf_call' = Call("other_error", url, Raised)
                         /\ UNCHANGED <<session_state, cache>>

call_safe_fetch(url, reply) ==
    /\ safe_fetch(url, reply)
    /\ UNCHANGED <<clock, lu_vars, fx_vars, od_vars>>

\* time passes
Tick ==
    /\ clock + TickSec <= ClockStart + MaxTicks * TickSec
    /\ clock' = clock + TickSec
    /\ UNCHANGED <<session_state, cache, last_attempt, sf_call, lu_vars, fx_vars, od_vars>>

FetchIdle ==
    /\ clock = ClockStart
    /\ session_state = [last_fetch_ts |-> 0, last_data |-> NoData]
    /\ cache = [u \in URLs |-> NotCached]
    /\ last_attempt = -1
    /\ sf_call = NoCall

------------------------------------------------------------------------------
(* best_lineups *)

\* best_p = -1e9 / best_f = -1e9: below every expected value, whose least
\* value is -1, and below every scaled numerator of the model
NEG_INF == -1000000000

\* the leg counts of `for n in [2,3,4,5,6]`
LEG_COUNTS == 2..6
FLEX_COUNTS == {n \in LEG_COUNTS : n >= 3}

Rows == [p_over : PNums, game : Games]

\* str(x) of a cell of the "game" column: a missing value prints as "nan"
GameStr(g) == IF g = Missing THEN "nan" ELSE g

\* the least sort key among the rows S of t: what sort_values puts first with
\* ascending=True
first_key_ascending(t, S) ==
    CHOOSE m \in {t[i].p_over : i \in S} : \A i \in S : t[i].p_over >= m

\* the sort key sort_values(..., ascending=False) puts first among the rows S
\* of t.  The key is edge_vs_BE_power3 = p_over - breakeven_p_power(3), which
\* orders rows as p_over does.
first_key(t, S) ==
    CHOOSE m \in {t[i].p_over : i \in S} : \A i \in S : t[i].p_over <= m

RECURSIVE sorted_head(_, _, _)
\* df.sort_values("edge_vs_BE_power3", ascending=False).head(k)
\*   .reset_index(drop=True), over the rows S of t: every table the call can
\* return.  The default sort is not stable, so rows of equal key come in any
\* order.
sorted_head(t, S, k) ==
    IF k = 0 \/ S = {} THEN {<<>>}
    ELSE LET m    == first_key(t, S)
             tops == {t[i] : i \in {j \in S : t[j].p_over = m}}
         IN  UNION {LET i == CHOOSE j \in S : t[j] = r
                    IN  {<<r>> \o rest : rest \in sorted_head(t, S \ {i}, k - 1)}
                    : r \in tops}

RECURSIVE combinations(_, _, _)
\* itertools.combinations(range(lo, hi), n), in the order it yields them
combinations(lo, hi, n) ==
    IF n = 0 THEN << <<>> >>
    ELSE IF hi - lo < n THEN <<>>
    ELSE LET with == combinations(lo + 1, hi, n - 1)
         IN  [i \in 1..Len(with) |-> <<lo>> \o with[i]]
             \o combinations(lo + 1, hi, n)

\* invalid_combo that blocks only a combination all of one game
invalid_combo_all_same(pool, idx_tuple, allow, hasg) ==
    IF allow \/ ~hasg THEN FALSE
    ELSE Cardinality({GameStr(pool[idx_tuple[i] + 1].game) : i \in DOMAIN idx_tuple}) <= 1

\* invalid_combo(idx_tuple)
invalid_combo(pool, idx_tuple, allow, hasg) ==
    IF allow \/ ~hasg THEN FALSE
    ELSE LET games == [i \in DOMAIN idx_tuple |-> GameStr(pool[idx_tuple[i] + 1].game)]
         IN  Cardinality(Range(games)) < Len(games)

\* ps = [rows[i].p_over for i in combo]
combo_ps(pool, combo) == [i \in DOMAIN combo |-> pool[combo[i] + 1].p_over]

EV(structure, ps, n) == IF structure = "power" THEN ev_power(ps, n) ELSE ev_flex(ps, n)

\* `if evp >= best_p`
better_or_equal(ev, best) == ev >= best

\* `if evp > best_p` / `if evf > best_f`
better(ev, best) == ev > best

RECURSIVE search_from(_, _, _, _, _, _, _, _)
\* the loop over itertools.combinations from its i-th combination on
search_from(structure, pool, allow, hasg, n, combos, i, best) ==
    IF i > Len(combos) THEN best
    ELSE LET combo == combos[i]
         IN  IF invalid_combo(pool, combo, allow, hasg)
             THEN search_from(structure, pool, allow, hasg, n, combos, i + 1, best)
             ELSE LET ev == EV(structure, combo_ps(pool, combo), n)
                  IN  search_from(structure, pool, allow, hasg, n, combos, i + 1,
                          IF better(ev, best.ev)
                          THEN [ev |-> ev, combo_idxs |-> combo] ELSE best)

\* a search whose loop starts at the second combination
search_skip_first(structure, pool, allow, hasg, n) ==
    search_from(structure, pool, allow, hasg, n,
                combinations(0, Len(pool), n), 2,
                [ev |-> NEG_INF, combo_idxs |-> None])

\* one search of best_lineups: best_p = -1e9; best_c = None; for combo in ...
search(structure, pool, allow, hasg, n) ==
    search_from(structure, pool, allow, hasg, n,
                combinations(0, Len(pool), n), 1,
                [ev |-> NEG_INF, combo_idxs |-> None])

\* the results dict
lineup_results(pool, allow, hasg) ==
    [power |-> [n \in LEG_COUNTS |-> search("power", pool, allow, hasg, n)],
     flex  |-> [n \in FLEX_COUNTS |-> search("flex", pool, allow, hasg, n)]]

NoResults == [power |-> <<>>, flex |-> <<>>]

\* best_lineups(df, top_k, allow_same_game)
best_lineups(k, allow) ==
    /\ lu_pc = "ready"
    /\ \E pool \in sorted_head(table, DOMAIN table, k) :
          /\ df2' = pool
          /\ results' = lineup_results(pool, allow, has_game)
    /\ top_k' = k
    /\ allow_same_game' = allow
    /\ lu_pc' = "done"
    /\ UNCHANGED <<table, has_game, fx_vars, od_vars, sf_vars>>

\* a table with a "game" column, or one without (its cells then all missing)
InitLineups ==
    /\ has_game \in BOOLEAN
    /\ table \in SeqsUpTo(Rows, MaxRows)
    /\ has_game = FALSE => \A i \in DOMAIN table : table[i].game = Missing
    /\ lu_pc = "ready"
    /\ top_k = 0
    /\ allow_same_game = TRUE
    /\ df2 = <<>>
    /\ results = NoResults
    /\ FlexIdle /\ OddsIdle /\ FetchIdle

NextLineups == \E k \in 0..MaxRows, allow \in BOOLEAN : best_lineups(k, allow)

SpecLineups == InitLineups /\ [][NextLineups]_vars

------------------------------------------------------------------------------
(* Properties of best_lineups *)

Done == lu_pc = "done"

\* the (structure, n) pairs of the result set
Pairs == {<<"power", n>> : n \in LEG_COUNTS} \cup {<<"flex", n>> : n \in FLEX_COUNTS}

RECURSIVE AsTuple(_)
\* a set of indices as the increasing tuple of its members
AsTuple(S) ==
    IF S = {} THEN <<>>
    ELSE LET m == CHOOSE x \in S : \A y \in S : x <= y
         IN  <<m>> \o AsTuple(S \ {m})

\* the size-n subsets of the indices 0 .. len - 1
SubsetsOf(len, n) == {S \in SUBSET (0..(len - 1)) : Cardinality(S) = n}

\* two rows of t carry the same grouping identifier, as the filter reads it
SameGroup(t, i, j) == GameStr(t[i + 1].game) = GameStr(t[j + 1].game)

\* S is admissible: the exclusion is off, or there is no game column, or no
\* two members of S share a grouping identifier
Admissible(t, S, allow) ==
    allow \/ ~has_game \/ \A i, j \in S : i # j => ~SameGroup(t, i, j)

AdmissibleSubsets(t, n, allow) == {S \in SubsetsOf(Len(t), n) : Admissible(t, S, allow)}

\* the expected value of the rows S of t under a structure
SetEV(structure, t, S, n) == EV(structure, combo_ps(t, AsTuple(S)), n)

RECURSIVE LexLeq(_, _)
\* a <= b in the lexicographic order of tuples of equal length
LexLeq(a, b) ==
    \/ a = <<>>
    \/ Head(a) < Head(b)
    \/ Head(a) = Head(b) /\ LexLeq(Tail(a), Tail(b))

\* C1: whenever the pool has an admissible size-n subset, the entry of
\* (structure, n) names an admissible size-n subset of the pool, its ev is the
\* expected value of that subset, and no admissible size-n subset of the pool
\* has a larger expected value.
C1_BestIsMaximal ==
    Done =>
        \A pr \in Pairs :
            LET s   == pr[1]
                n   == pr[2]
                r   == results[s][n]
                adm == AdmissibleSubsets(df2, n, allow_same_game)
            IN  adm # {} =>
                    /\ r.combo_idxs # None
                    /\ Range(r.combo_idxs) \in adm
                    /\ r.combo_idxs = AsTuple(Range(r.combo_idxs))
                    /\ r.ev = EV(s, combo_ps(df2, r.combo_idxs), n)
                    /\ \A S \in adm : SetEV(s, df2, S, n) <= r.ev

\* a search under the exclusion that had admissible subsets of different
\* value to choose from, and a blocked subset worth more than any of them
C1_Witness ==
    /\ Done /\ ~allow_same_game /\ has_game
    /\ \E pr \in Pairs :
          LET adm == AdmissibleSubsets(df2, pr[2], FALSE)
          IN  /\ \E S, T \in adm :
                     SetEV(pr[1], df2, S, pr[2]) < SetEV(pr[1], df2, T, pr[2])
              /\ \E S \in SubsetsOf(Len(df2), pr[2]) \ adm :
                     SetEV(pr[1], df2, S, pr[2]) > results[pr[1]][pr[2]].ev

\* C2 (as claimed): whenever the pool has no admissible size-n subset, the
\* entry of (structure, n) has a null expected value and null members.
C2_NullWhenNone ==
    Done =>
        \A pr \in Pairs :
            LET r == results[pr[1]][pr[2]]
            IN  AdmissibleSubsets(df2, pr[2], allow_same_game) = {} =>
                    /\ r.ev \notin Int
                    /\ r.combo_idxs = None

\* C3: under the exclusion, no returned combination holds two members with
\* the same grouping identifier; where the table has a game column, no two
\* members even print the same (two missing identifiers count as equal).
C3_NoSharedGroup ==
    (Done /\ ~allow_same_game) =>
        \A pr \in Pairs :
            LET c == results[pr[1]][pr[2]].combo_idxs
            IN  c # None =>
                    \A i, j \in DOMAIN c :
                        i # j =>
                            LET gi == df2[c[i] + 1].game
                                gj == df2[c[j] + 1].game
                            IN  /\ c[i] # c[j]
                                /\ (gi # Missing /\ gj # Missing) => gi # gj
                                /\ has_game => GameStr(gi) # GameStr(gj)

\* the exclusion changed an answer: a returned combination, one member of it
\* without identifier, while a blocked subset was worth more
C3_Witness ==
    /\ Done /\ ~allow_same_game /\ has_game
    /\ \E pr \in Pairs :
          LET r == results[pr[1]][pr[2]]
          IN  /\ r.combo_idxs # None
              /\ \E i \in DOMAIN r.combo_idxs : df2[r.combo_idxs[i] + 1].game = Missing
              /\ \E S \in SubsetsOf(Len(df2), pr[2]) :
                     /\ ~Admissible(df2, S, FALSE)
                     /\ SetEV(pr[1], df2, S, pr[2]) > r.ev

\* C4: among the admissible subsets that tie on the reported expected value,
\* the returned index tuple is the lexicographically smallest.
C4_TieBreakLexSmallest ==
    Done =>
        \A pr \in Pairs :
            LET r == results[pr[1]][pr[2]]
            IN  r.combo_idxs # None =>
                    \A S \in AdmissibleSubsets(df2, pr[2], allow_same_game) :
                        SetEV(pr[1], df2, S, pr[2]) = r.ev
                            => LexLeq(r.combo_idxs, AsTuple(S))

\* several admissible subsets tie on the maximum, and the first combination
\* of the enumeration is not among them
C4_Witness ==
    /\ Done
    /\ \E pr \in Pairs :
          LET r   == results[pr[1]][pr[2]]
              adm == AdmissibleSubsets(df2, pr[2], allow_same_game)
          IN  /\ r.combo_idxs # None
              /\ Cardinality({S \in adm : SetEV(pr[1], df2, S, pr[2]) = r.ev}) >= 2
              /\ r.combo_idxs # AsTuple(0..(pr[2] - 1))

\* the rows of the whole input table, as a pool
TableBest(structure, n, allow) ==
    {SetEV(structure, table, S, n) : S \in AdmissibleSubsets(table, n, allow)}

\* C10: with the exclusion off and top_k >= n, the ev reported for
\* (structure, n) is the largest expected value of any size-n subset of the
\* whole input table (and there is a result whenever the table has n rows).
C10_TruncationKeepsOptimum ==
    (Done /\ allow_same_game) =>
        \A pr \in Pairs :
            LET r    == results[pr[1]][pr[2]]
                evs  == TableBest(pr[1], pr[2], TRUE)
            IN  top_k >= pr[2] =>
                    /\ (evs = {}) <=> (r.combo_idxs = None)
                    /\ evs # {} => (r.ev \in evs /\ \A e \in evs : e <= r.ev)

\* the truncation dropped rows, of lower probability than some it kept, and
\* a partial-hit search ran over what was left
C10_Witness ==
    /\ Done /\ allow_same_game
    /\ top_k >= 3 /\ Len(table) > top_k
    /\ \E i, j \in DOMAIN table : table[i].p_over < table[j].p_over
    /\ results.flex[3].combo_idxs # None

\* C10, second half: under the exclusion the pool's best can fall short of
\* the best admissible subset of the whole table
C10_ExclusionGap ==
    /\ Done /\ ~allow_same_game /\ has_game
    /\ \E pr \in Pairs :
          /\ top_k >= pr[2]
          /\ \E e \in TableBest(pr[1], pr[2], FALSE) : e > results[pr[1]][pr[2]].ev

------------------------------------------------------------------------------
(* Properties of ev_flex *)

RECURSIVE SeqSum(_)
SeqSum(q) == IF q = <<>> THEN 0 ELSE Head(q) + SeqSum(Tail(q))

\* C7: at entry to the loop and after each leg, dp sums to 1 (PDen^j over
\* PDen^j), no dp[k] is negative, and dp[k] = 0 for every k above the number
\* of legs processed.
C7_DpIsDistribution ==
    fx_pc \in {"loop", "done"} =>
        /\ SeqSum(fx_dp) = Pow(PDen, fx_j)
        /\ \A i \in DOMAIN fx_dp : fx_dp[i] >= 0
        /\ \A i \in DOMAIN fx_dp : (i - 1 > fx_j) => fx_dp[i] = 0

\* ev_flex returned for three or more legs of unequal probabilities, none of
\* them 0 or 1: every hit count has mass
C7_Witness ==
    /\ fx_pc = "done"
    /\ Len(fx_ps) >= 3
    /\ \A i \in DOMAIN fx_ps : 0 < fx_ps[i] /\ fx_ps[i] < PDen
    /\ \E i, j \in DOMAIN fx_ps : fx_ps[i] # fx_ps[j]
    /\ \A i \in DOMAIN fx_dp : fx_dp[i] > 0

------------------------------------------------------------------------------
(* Properties of the odds conversion *)

\* two probabilities <<num, den>> are the same number
SameProb(x, y) == x[1] * y[2] = y[1] * x[2]

\* the implied probability of valid American odds, as section 4.1 gives it
Implied(odds) ==
    IF odds >= 100 THEN <<100, odds + 100>> ELSE <<-odds, (-odds) + 100>>

ValidOdds(odds) == odds >= 100 \/ odds <= -100

\* amer_to_imp_prob returned the value of section 4.1 for valid odds
C5_ValidOddsValue ==
    (imp_pc # "idle" /\ ValidOdds(imp_arg)) =>
        (imp_pc = "returned" /\ SameProb(imp_ret, Implied(imp_arg)))

\* C5 (as claimed): amer_to_imp_prob fails with InvalidOdds on odds strictly
\* between -100 and 100 and returns no value; on odds >= 100 it returns
\* 100 / (odds + 100) and on odds <= -100 it returns |odds| / (|odds| + 100).
C5_InvalidOddsRejected ==
    /\ C5_ValidOddsValue
    /\ (imp_pc # "idle" /\ ~ValidOdds(imp_arg)) => imp_pc = "raised"

\* both prices of a row are present and valid American odds
ValidRow(r) ==
    /\ r.over_odds # NoPrice /\ r.under_odds # NoPrice
    /\ ValidOdds(r.over_odds[1]) /\ ValidOdds(r.under_odds[1])

\* the fair probability of the over side of a valid row
FairOver(r) ==
    LET io == Implied(r.over_odds[1])
        iu == Implied(r.under_odds[1])
    IN  <<io[1] * iu[2], io[1] * iu[2] + iu[1] * io[2]>>

\* C6 (as claimed): compute_probabilities never aborts; the rows of its
\* output are exactly the rows of the input whose two prices are present and
\* valid, each with its fair probability.
C6_BadRowsExcluded ==
    od_pc \in {"done", "raised"} =>
        /\ od_pc = "done"
        /\ {od_out[i].row : i \in DOMAIN od_out}
              = {i \in DOMAIN od_table : ValidRow(od_table[i])}
        /\ \A i \in DOMAIN od_out :
              SameProb(od_out[i].p_over, FairOver(od_table[od_out[i].row]))

------------------------------------------------------------------------------
(* Properties of safe_fetch *)

\* C8 (as claimed): a call whose upstream fetch fails, in whatever way,
\* returns the stored last_data and leaves it as it was; last_data changes
\* only in a call whose fetch succeeded.
C8_FailureReturnsLastGood ==
    /\ sf_call.outcome \in {"runtime_error", "other_error"} =>
          /\ sf_call.ret = sf_call.data_before
          /\ session_state.last_data = sf_call.data_before
    /\ sf_call.outcome \notin {"fetched", "cached"} =>
          session_state.last_data = sf_call.data_before

\* C9 (as claimed): a call made less than min_gap_sec after the previous
\* upstream attempt, whether that attempt succeeded or failed, makes no
\* request, returns the stored last_data and changes neither last_fetch_ts
\* nor last_data.
C9_CooldownAfterAnyAttempt ==
    (/\ sf_call.outcome # "none"
     /\ sf_call.attempt_before >= 0
     /\ sf_call.now - sf_call.attempt_before < min_gap_sec) =>
        /\ sf_call.outcome = "skipped"
        /\ last_attempt = sf_call.attempt_before
        /\ sf_call.ret = sf_call.data_before
        /\ session_state.last_fetch_ts = sf_call.ts_before
        /\ session_state.last_data = sf_call.data_before

LineupsIdle ==
    /\ table = <<>> /\ has_game = FALSE /\ lu_pc = "idle" /\ top_k = 0
    /\ allow_same_game = TRUE /\ df2 = <<>> /\ results = NoResults

\* ev_flex entered with any vector of probabilities k / PDen, 0 <= k <= PDen
InitFlex ==
    /\ fx_ps \in SeqsUpTo(0..PDen, MaxLegs)
    /\ fx_dp = flex_dp0(Len(fx_ps))
    /\ fx_j = 0
    /\ fx_pc = "loop"
    /\ fx_ev = 0
    /\ LineupsIdle /\ OddsIdle /\ FetchIdle

NextFlex == ev_flex_leg \/ ev_flex_return

SpecFlex == InitFlex /\ [][NextFlex]_vars

\* a fresh session: nothing fetched, nothing cached
InitFetch == FetchIdle /\ LineupsIdle /\ FlexIdle /\ OddsIdle

NextFetch ==
    \/ Tick
    \/ \E url \in URLs, reply \in Replies : call_safe_fetch(url, reply)

SpecFetch == InitFetch /\ [][NextFetch]_vars

\* compute_probabilities entered with any table of prices
InitOdds ==
    /\ od_table \in SeqsUpTo(OddsRows, MaxOddsRows)
    /\ od_pc = "ready"
    /\ od_out = <<>>
    /\ imp_pc = "idle" /\ imp_arg = 0 /\ imp_ret = <<0, 1>>
    /\ LineupsIdle /\ FlexIdle /\ FetchIdle

NextOdds ==
    \/ compute_probabilities
    \/ \E odds \in OddsArgs : call_amer_to_imp_prob(odds)

SpecOdds == InitOdds /\ [][NextOdds]_vars

====
